---------------------------- MODULE Spec2Model ----------------------------
(***************************************************************************)
(* A model of package goid (observeinc/goid): the slow goroutine-id        *)
(* extractor, the offset finder, the offset validator, the voter           *)
(* consensus that resolves gidOffset during package initialization, and    *)
(* the public accessors GetGoID and FastGetGoIDAvailable.                  *)
(*                                                                         *)
(* A goroutine's control block "g" is a sequence of gidSize-wide words;    *)
(* word k is the memory at byte offset k*gidSize.  The runtime stores the  *)
(* goroutine id in one word (goidField); what the other words hold, and    *)
(* how many words past the pointer are readable, is the runtime's affair   *)
(* and is chosen nondeterministically for every goroutine.                 *)
(***************************************************************************)
EXTENDS Integers, Sequences, FiniteSets

---------------------------------------------------------------------------
(* Sizes.  gidSize and bufSize are the program's; the others are the       *)
(* program's constants scaled down to keep the state space finite.         *)

gidSize == 8

bufSize == 32

\* gSize / gidSize: the number of words in the scanned window (32 in the code)
NumSlots == 2

\* probes per candidate offset (10 in the code)
checkCount == 2

\* voters (10 in the code)
voterCount == 2

\* width of a GoID in bits (gidSize*8 = 64 in the code)
GoIDBits == 7

\* goroutines that call the public API after package initialization
NumCallers == 2

\* longest text after the optional prefix that the extractor is tried on
MaxBody == 4

gSize == NumSlots * gidSize

RECURSIVE Pow2(_)
Pow2(n) == IF n = 0 THEN 1 ELSE 2 * Pow2(n - 1)

Min(a, b) == IF a < b THEN a ELSE b

---------------------------------------------------------------------------
(* Text: a string is a sequence of one-character strings.                  *)

Str_goroutine == <<"g", "o", "r", "o", "u", "t", "i", "n", "e", " ">>

Str_fake == <<"f", "a", "k", "e", " ">>

Str_running == <<" ", "[", "r", "u", "n", "n", "i", "n", "g", "]", ":">>

Digits == <<"0", "1", "2", "3", "4", "5", "6", "7", "8", "9">>

IsDigit(c) == \E i \in 1..10 : Digits[i] = c

DigitVal(c) == (CHOOSE i \in 1..10 : Digits[i] = c) - 1

\* strconv.FormatInt(n, 10)
RECURSIVE FormatUint(_)
FormatUint(n) ==
    IF n < 10 THEN <<Digits[n + 1]>>
    ELSE FormatUint(n \div 10) \o <<Digits[(n % 10) + 1]>>

FormatInt(n) == IF n < 0 THEN <<"-">> \o FormatUint(0 - n) ELSE FormatUint(n)

\* strings.HasPrefix
HasPrefix(s, p) == Len(s) >= Len(p) /\ SubSeq(s, 1, Len(p)) = p

\* strings.TrimPrefix: s without the leading p, or s itself when p does not lead it
TrimPrefix(s, p) == IF HasPrefix(s, p) THEN SubSeq(s, Len(p) + 1, Len(s)) ELSE s

\* strings.IndexByte: the 0-based index of the first c in s, or -1
IndexByte(s, c) ==
    IF \E i \in 1..Len(s) : s[i] = c
    THEN (CHOOSE i \in 1..Len(s) : s[i] = c /\ \A j \in 1..(i - 1) : s[j] # c) - 1
    ELSE -1

\* the digit loop of strconv.ParseUint(s, 10, bits): the value, or -1 on a
\* syntax error (empty text, a non-digit) or a range error (value past max)
RECURSIVE ParseDigits(_, _, _)
ParseDigits(s, acc, max) ==
    IF s = <<>> THEN acc
    ELSE IF ~IsDigit(Head(s)) THEN -1
    ELSE IF acc * 10 + DigitVal(Head(s)) > max THEN -1
    ELSE ParseDigits(Tail(s), acc * 10 + DigitVal(Head(s)), max)

\* strconv.ParseInt(s, 10, bits): [err, val]
ParseInt(s, bits) ==
    LET neg == s # <<>> /\ Head(s) = "-"
        signed == s # <<>> /\ Head(s) \in {"+", "-"}
        body == IF signed THEN Tail(s) ELSE s
        cutoff == Pow2(bits - 1)
        un == IF body = <<>> THEN -1 ELSE ParseDigits(body, 0, cutoff)
    IN  IF un = -1 THEN [err |-> TRUE, val |-> 0]
        ELSE IF ~neg /\ un >= cutoff THEN [err |-> TRUE, val |-> 0]
        ELSE [err |-> FALSE, val |-> IF neg THEN 0 - un ELSE un]

\* buf[:runtime.Stack(buf[:], false)]: the first bufSize bytes of the trace
StackBuf(trace) == SubSeq(trace, 1, Min(Len(trace), bufSize))

\* slowGid with the number cut one byte too far: str[:lastOffset+1]
slowGidOfCutLate(prefix, trace) ==
    LET str == TrimPrefix(StackBuf(trace), prefix)
        lastOffset == IndexByte(str, " ")
    IN  IF lastOffset > 0
        THEN LET r == ParseInt(SubSeq(str, 1, lastOffset + 1), GoIDBits)
             IN  IF ~r.err THEN r.val ELSE 0
        ELSE 0

\* the body of slowGid on the trace the runtime produces for the caller
slowGidOf(prefix, trace) ==
    LET str == TrimPrefix(StackBuf(trace), prefix)
        lastOffset == IndexByte(str, " ")
    IN  IF lastOffset > 0
        THEN LET r == ParseInt(SubSeq(str, 1, lastOffset), GoIDBits)
             IN  IF ~r.err THEN r.val ELSE 0
        ELSE 0

\* what runtime.Stack writes for goroutine gid: "goroutine <gid> [running]:"
StackTrace(gid) == Str_goroutine \o FormatInt(gid) \o Str_running

---------------------------------------------------------------------------
(* Goroutines and their control blocks.                                    *)

VARIABLES
    goroutinePrefix,        \* package variable goroutinePrefix
    gidOffset,              \* package variable gidOffset
    initDone,               \* package initialization has finished
    archHasGetg,            \* getg is implemented for this architecture
    goidField,              \* word of the g holding the id (NumSlots: past the window)
    run,                    \* 0: not started, 1: the initializer's run, 2: a later call
    mainPc,                 \* where the goroutine running getGidOffset stands
    mainI,                  \* its loop counter i
    voters,                 \* the voter goroutines of the current run
    ret,                    \* getGidOffset's channel ret
    globalCandidateOffsets, \* getGidOffset's tally map
    reported,               \* the list each voter sent (history)
    results,                \* per finished run of getGidOffset: the offset returned, its tally
    crashed,                \* the runtime has thrown a fatal error
    callers,                \* goroutines that call the public API
    unit                    \* a single call of slowGid or findGidOffset, by itself

vars == <<goroutinePrefix, gidOffset, initDone, archHasGetg, goidField, run, mainPc,
          mainI, voters, ret, globalCandidateOffsets, reported, results, crashed,
          callers, unit>>

Voters == 1..voterCount

Probes == 1..checkCount

Callers == 1..NumCallers

\* the offsets of the window: 0, gidSize, ..., gSize - gidSize
Offsets == {k * gidSize : k \in 0..(NumSlots - 1)}

\* Goroutine ids are the runtime's: every goroutine gets one no other has.
GoroutinesPerRun == voterCount + voterCount * NumSlots * checkCount

VoterGid(r, v) == 1 + (r - 1) * GoroutinesPerRun + v

ProbeGid(r, v, offset, i) ==
    1 + (r - 1) * GoroutinesPerRun + voterCount
      + ((v - 1) * NumSlots + offset \div gidSize) * checkCount + i

CallerGid(c) == 1 + 2 * GoroutinesPerRun + c

\* The memory behind a g: the readable words, each holding the goroutine's
\* own id or something else (0).  The id field holds the id; the words up to
\* the id field belong to the g and are readable, later ones may not be.
Blocks(gid) ==
    {m \in UNION {[1..n -> {gid, 0}] : n \in 1..NumSlots} :
        IF goidField < NumSlots
        THEN Len(m) > goidField /\ m[goidField + 1] = gid
        ELSE Len(m) = NumSlots}

\* a goroutine: its id, the memory behind its g, its panic-on-fault setting
NewG(gid, m) == [gid |-> gid, mem |-> m, paniconfault |-> FALSE]

\* the nil *g
NilG == [gid |-> 0, mem |-> <<>>, paniconfault |-> FALSE]

\* getg() on an architecture the package has no assembly for: no g to return
getgAbsent(self) == NilG

\* getg(): the calling goroutine's g
getg(self) == IF archHasGetg THEN self ELSE getgAbsent(self)

\* slowGid reading a fixed prefix instead of the variable goroutinePrefix
slowGidFixedPrefix(self) == slowGidOf(Str_goroutine, StackTrace(self.gid))

\* slowGid() called by goroutine self
slowGid(self) == slowGidOf(goroutinePrefix, StackTrace(self.gid))

\* reading a GoID at g + offset touches unmapped memory
Faults(g, offset) == offset < 0 \/ offset \div gidSize >= Len(g.mem)

\* gidFromG(g, offset), where the read does not fault
gidFromG(g, offset) == g.mem[offset \div gidSize + 1]

\* the loop written `offset <= maxOffset`
RECURSIVE ScanGInclusive(_, _, _, _, _, _)
ScanGInclusive(g, currGid, offset, maxOffset, pof, reads) ==
    IF offset > maxOffset
    THEN [ret |-> -1, reads |-> reads, panicked |-> FALSE, fatal |-> FALSE]
    ELSE IF Faults(g, offset)
    THEN [ret |-> -1, reads |-> Append(reads, offset), panicked |-> pof, fatal |-> ~pof]
    ELSE IF gidFromG(g, offset) = currGid
    THEN [ret |-> offset, reads |-> Append(reads, offset), panicked |-> FALSE,
          fatal |-> FALSE]
    ELSE ScanGInclusive(g, currGid, offset + gidSize, maxOffset, pof,
                        Append(reads, offset))

\* the loop of findGidOffset from offset on: the value returned, the offsets
\* read, whether a fault was turned into a panic or ended the process
RECURSIVE ScanG(_, _, _, _, _, _)
ScanG(g, currGid, offset, maxOffset, pof, reads) ==
    IF offset >= maxOffset
    THEN [ret |-> -1, reads |-> reads, panicked |-> FALSE, fatal |-> FALSE]
    ELSE IF Faults(g, offset)
    THEN [ret |-> -1, reads |-> Append(reads, offset), panicked |-> pof, fatal |-> ~pof]
    ELSE IF gidFromG(g, offset) = currGid
    THEN [ret |-> offset, reads |-> Append(reads, offset), panicked |-> FALSE,
          fatal |-> FALSE]
    ELSE ScanG(g, currGid, offset + gidSize, maxOffset, pof, Append(reads, offset))

\* findGidOffset without its debug.SetPanicOnFault(true)
ScanPanicOnFaultKept(old) == old

\* debug.SetPanicOnFault(true) in findGidOffset: the setting during the scan
ScanPanicOnFault(old) == TRUE

\* the restore written as a plain statement before `return`, which a panic skips
RestoredUnlessPanicked(old, panicked) == IF panicked THEN TRUE ELSE old

\* the setting findGidOffset leaves: the deferred
\* debug.SetPanicOnFault(oldPanicOnFault) runs on a return and on a panic alike
RestoredPanicOnFault(old, panicked) == old

\* findGidOffset without the test `currGid != 0`
findGidOffsetNoZeroTest(self, startOffset, maxOffset) ==
    LET currGid == slowGid(self)
        g == getg(self)
        oldPanicOnFault == self.paniconfault
        scan == IF g # NilG
                THEN ScanG(g, currGid, startOffset, maxOffset,
                           ScanPanicOnFault(oldPanicOnFault), <<>>)
                ELSE [ret |-> -1, reads |-> <<>>, panicked |-> FALSE, fatal |-> FALSE]
    IN  [offset |-> scan.ret,
         reads |-> scan.reads,
         panicked |-> scan.panicked,
         fatal |-> scan.fatal,
         paniconfault |-> RestoredPanicOnFault(oldPanicOnFault, scan.panicked)]

\* findGidOffset(startOffset, maxOffset) called by goroutine self
findGidOffset(self, startOffset, maxOffset) ==
    LET currGid == slowGid(self)
        g == getg(self)
        oldPanicOnFault == self.paniconfault
        scan == IF currGid # 0 /\ g # NilG
                THEN ScanG(g, currGid, startOffset, maxOffset,
                           ScanPanicOnFault(oldPanicOnFault), <<>>)
                ELSE [ret |-> -1, reads |-> <<>>, panicked |-> FALSE, fatal |-> FALSE]
    IN  [offset |-> scan.ret,
         reads |-> scan.reads,
         panicked |-> scan.panicked,
         fatal |-> scan.fatal,
         paniconfault |-> RestoredPanicOnFault(oldPanicOnFault, scan.panicked)]

---------------------------------------------------------------------------
(* getGidOffset: the voters, their probes, the tally.                      *)

\* a probe goroutine: "none" before checkGidOffset starts it, "ready" once
\* started, and once it has run what it found: "nogid" (slowGid() was 0),
\* "nilg" (getg() was nil), "matched" or "differs" (the word at the offset
\* against its slowGid()), "dead" (the read faulted and ended the process)
NoProbe == "none"

NoProbes == [i \in Probes |-> NoProbe]

\* a voter that has not been spawned; checked lists the offsets it has passed
\* to checkGidOffset so far, each with the value checkGidOffset returned
NoVoter ==
    [pc |-> "none", g |-> NilG, offset |-> 0, localCandidateOffsets |-> <<>>,
     probes |-> NoProbes, chk |-> <<>>, result |-> TRUE, i |-> 0, checked |-> <<>>]

Idle == mainPc \in {"start", "idle"}

\* `gidOffset = getGidOffset()` begins (run 1), or getGidOffset is called
\* again once initialization is over (run 2): ret := make(chan []int, voterCount)
Begin ==
    /\ ~crashed
    /\ \/ mainPc = "start" /\ run = 0
       \/ mainPc = "idle" /\ run = 1 /\ \A c \in Callers : callers[c].pc = "none"
    /\ run' = run + 1
    /\ mainPc' = "spawn"
    /\ mainI' = 0
    /\ voters' = [v \in Voters |-> NoVoter]
    /\ ret' = <<>>
    /\ globalCandidateOffsets' = <<>>
    /\ reported' = [v \in Voters |-> <<>>]
    /\ UNCHANGED <<goroutinePrefix, gidOffset, initDone, archHasGetg, goidField,
                   results, crashed, callers, unit>>

\* one iteration of `for i := 0; i < voterCount; i++ { go func() {...}() }`
SpawnVoter ==
    /\ ~crashed
    /\ mainPc = "spawn"
    /\ mainI < voterCount
    /\ \E m \in Blocks(VoterGid(run, mainI + 1)) :
          voters' = [voters EXCEPT ![mainI + 1] =
                        [NoVoter EXCEPT !.pc = "loop",
                                        !.g = NewG(VoterGid(run, mainI + 1), m)]]
    /\ mainI' = IF mainI + 1 = voterCount THEN 0 ELSE mainI + 1
    /\ mainPc' = IF mainI + 1 = voterCount THEN "collect" ELSE "spawn"
    /\ UNCHANGED <<goroutinePrefix, gidOffset, initDone, archHasGetg, goidField, run,
                   ret, globalCandidateOffsets, reported, results, crashed, callers,
                   unit>>

\* the voter's loop head and its call `offset = findGidOffset(offset, gSize)`
VoterFind(v) ==
    /\ ~crashed
    /\ voters[v].pc = "loop"
    /\ LET me == voters[v]
           found == findGidOffset(me.g, me.offset, gSize)
       IN  IF me.offset >= gSize
           THEN /\ voters' = [voters EXCEPT ![v].pc = "send"]
                /\ UNCHANGED crashed
           ELSE IF found.fatal
           THEN /\ crashed' = TRUE
                /\ UNCHANGED voters
           ELSE /\ voters' = [voters EXCEPT
                      ![v].offset = found.offset,
                      ![v].g.paniconfault = found.paniconfault,
                      ![v].pc = IF found.offset = -1 THEN "send" ELSE "check"]
                /\ UNCHANGED crashed
    /\ UNCHANGED <<goroutinePrefix, gidOffset, initDone, archHasGetg, goidField, run,
                   mainPc, mainI, ret, globalCandidateOffsets, reported, results,
                   callers, unit>>

\* checkGidOffset(offset): ret := make(chan bool, checkCount) and the go statements
CheckSpawn(v) ==
    /\ ~crashed
    /\ voters[v].pc = "check"
    /\ voters' = [voters EXCEPT ![v].pc = "recv",
                                ![v].probes = [i \in Probes |-> "ready"],
                                ![v].chk = <<>>,
                                ![v].result = TRUE,
                                ![v].i = 0]
    /\ UNCHANGED <<goroutinePrefix, gidOffset, initDone, archHasGetg, goidField, run,
                   mainPc, mainI, ret, globalCandidateOffsets, reported, results,
                   crashed, callers, unit>>

\* what one probe goroutine does: [sent: the boolean it sends, fatal: it
\* faulted with panic-on-fault off, which ends the process]
ProbeOutcome(self, offset) ==
    LET gid == slowGid(self)
        g == getg(self)
        reads == gid # 0 /\ g # NilG
    IN  IF reads /\ Faults(g, offset)
        THEN [sent |-> FALSE, fatal |-> ~self.paniconfault]
        ELSE [sent |-> reads /\ gidFromG(g, offset) = gid, fatal |-> FALSE]

\* a probe goroutine of voter v's checkGidOffset runs to its send
ProbeRun(v, i) ==
    /\ ~crashed
    /\ voters[v].pc = "recv"
    /\ voters[v].probes[i] = "ready"
    /\ Len(voters[v].chk) < checkCount
    /\ \E m \in Blocks(ProbeGid(run, v, voters[v].offset, i)) :
          LET self == NewG(ProbeGid(run, v, voters[v].offset, i), m)
              out == ProbeOutcome(self, voters[v].offset)
              gid == slowGid(self)
              g == getg(self)
              found == IF gid = 0 THEN "nogid"
                       ELSE IF g = NilG THEN "nilg"
                       ELSE IF Faults(g, voters[v].offset) THEN "dead"
                       ELSE IF gidFromG(g, voters[v].offset) = gid THEN "matched"
                       ELSE "differs"
          IN  IF out.fatal
              THEN /\ crashed' = TRUE
                   /\ voters' = [voters EXCEPT
                         ![v].probes[i] = found]
              ELSE /\ voters' = [voters EXCEPT
                         ![v].probes[i] = found,
                         ![v].chk = Append(voters[v].chk, out.sent)]
                   /\ UNCHANGED crashed
    /\ UNCHANGED <<goroutinePrefix, gidOffset, initDone, archHasGetg, goidField, run,
                   mainPc, mainI, ret, globalCandidateOffsets, reported, results,
                   callers, unit>>

\* checkGidOffset keeping only the boolean it received last
CheckResultLast(result, b) == b

\* the result checkGidOffset holds after receiving b
CheckResult(result, b) == IF ~b THEN FALSE ELSE result

\* the voter's loop written `offset++`
NextOffsetByOne(offset) == offset + 1

\* the voter's loop statement `offset += gidSize`
NextOffset(offset) == offset + gidSize

\* a voter that leaves its loop at the first candidate checkGidOffset rejects
VoterBreaksOnReject(result) == IF result THEN "loop" ELSE "send"

\* where the voter goes once checkGidOffset has returned result: on to the
\* next iteration, whether or not the candidate was approved
VoterAfterCheck(result) == "loop"

\* one iteration of checkGidOffset's receive loop; after the last one the
\* voter appends an approved offset and steps to offset + gidSize
CheckRecv(v) ==
    /\ ~crashed
    /\ voters[v].pc = "recv"
    /\ voters[v].chk # <<>>
    /\ LET me == voters[v]
           result == CheckResult(me.result, Head(me.chk))
       IN  IF me.i + 1 < checkCount
           THEN voters' = [voters EXCEPT ![v].chk = Tail(me.chk),
                                         ![v].result = result,
                                         ![v].i = me.i + 1]
           ELSE voters' = [voters EXCEPT
                    ![v].chk = Tail(me.chk),
                    ![v].result = result,
                    ![v].i = me.i + 1,
                    ![v].probes = NoProbes,
                    ![v].checked =
                        Append(me.checked, [offset |-> me.offset, result |-> result]),
                    ![v].localCandidateOffsets =
                        IF result THEN Append(me.localCandidateOffsets, me.offset)
                        ELSE me.localCandidateOffsets,
                    ![v].offset = NextOffset(me.offset),
                    ![v].pc = VoterAfterCheck(result)]
    /\ UNCHANGED <<goroutinePrefix, gidOffset, initDone, archHasGetg, goidField, run,
                   mainPc, mainI, ret, globalCandidateOffsets, reported, results,
                   crashed, callers, unit>>

\* `ret <- localCandidateOffsets`, and the voter goroutine ends
VoterSend(v) ==
    /\ ~crashed
    /\ voters[v].pc = "send"
    /\ Len(ret) < voterCount
    /\ ret' = Append(ret, voters[v].localCandidateOffsets)
    /\ reported' = [reported EXCEPT ![v] = voters[v].localCandidateOffsets]
    /\ voters' = [voters EXCEPT ![v] = [NoVoter EXCEPT !.pc = "exit"]]
    /\ UNCHANGED <<goroutinePrefix, gidOffset, initDone, archHasGetg, goidField, run,
                   mainPc, mainI, globalCandidateOffsets, crashed, results, callers,
                   unit>>

\* globalCandidateOffsets[offset]++ for every offset of list
RECURSIVE CountVotes(_, _)
CountVotes(tally, list) ==
    IF list = <<>> THEN tally
    ELSE LET offset == Head(list)
             old == IF offset \in DOMAIN tally THEN tally[offset] ELSE 0
         IN  CountVotes([o \in DOMAIN tally \cup {offset} |->
                             IF o = offset THEN old + 1 ELSE tally[o]],
                        Tail(list))

\* one iteration of `for i := 0; i < voterCount; i++ { for ... range <-ret {...} }`
MainRecv ==
    /\ ~crashed
    /\ mainPc = "collect"
    /\ mainI < voterCount
    /\ ret # <<>>
    /\ globalCandidateOffsets' = CountVotes(globalCandidateOffsets, Head(ret))
    /\ ret' = Tail(ret)
    /\ mainI' = mainI + 1
    /\ mainPc' = IF mainI + 1 = voterCount THEN "pick" ELSE "collect"
    /\ UNCHANGED <<goroutinePrefix, gidOffset, initDone, archHasGetg, goidField, run,
                   voters, reported, results, crashed, callers, unit>>

\* the pick with `votes > 0` for `votes == voterCount`
PicksAnyVote(tally) ==
    IF \E o \in DOMAIN tally : tally[o] > 0
    THEN {o \in DOMAIN tally : tally[o] > 0}
    ELSE {-1}

\* the offsets the loop over the tally map can return: a map is ranged over
\* in no fixed order, so the first entry with voterCount votes may be any of them
Picks(tally) ==
    IF \E o \in DOMAIN tally : tally[o] = voterCount
    THEN {o \in DOMAIN tally : tally[o] = voterCount}
    ELSE {-1}

\* getGidOffset storing what it returns into gidOffset itself
StoredAlways(o) == o

\* gidOffset once getGidOffset has returned o: the package initializer
\* (run 1) assigns it, a later caller of getGidOffset does not
Stored(o) == IF run = 1 THEN o ELSE gidOffset

\* getGidOffset returns; run 1's value initializes gidOffset
MainPick ==
    /\ ~crashed
    /\ mainPc = "pick"
    /\ \E o \in Picks(globalCandidateOffsets) :
          /\ results' = Append(results, [offset |-> o, tally |-> globalCandidateOffsets])
          /\ gidOffset' = Stored(o)
    /\ initDone' = TRUE
    /\ mainPc' = "idle"
    /\ UNCHANGED <<goroutinePrefix, archHasGetg, goidField, run, mainI, voters, ret,
                   globalCandidateOffsets, reported, crashed, callers, unit>>

---------------------------------------------------------------------------
(* The public API, called by goroutines of the importing program.          *)

\* a goroutine of the importing program: the value GetGoID returned to it, the
\* answers FastGetGoIDAvailable gave it, the values of gidOffset its calls read
NoCaller == [pc |-> "none", g |-> NilG, id |-> 0, answers |-> {}, seen |-> {}]

\* FastGetGoIDAvailable()
FastGetGoIDAvailable == gidOffset >= 0

\* fastGid() called by goroutine self: [id, fatal]; a read through nil or
\* of unmapped memory ends the process, the caller having no recover
fastGid(self) ==
    LET g == getg(self)
    IN  IF g = NilG \/ Faults(g, gidOffset)
        THEN [id |-> 0, fatal |-> TRUE]
        ELSE [id |-> gidFromG(g, gidOffset), fatal |-> FALSE]

\* GetGoID() called by goroutine self
GetGoID(self) ==
    IF FastGetGoIDAvailable THEN fastGid(self)
    ELSE [id |-> slowGid(self), fatal |-> FALSE]

\* no barrier: the API is callable while gidOffset's initializer has not returned
MayCallEarly == TRUE

\* Code of an importing package runs once this package is initialized
\* (gidOffset's initializer has returned)
MayCall == initDone

\* a goroutine of the importing program starts
CallerSpawn(c) ==
    /\ ~crashed
    /\ MayCall
    /\ Idle
    /\ callers[c].pc = "none"
    /\ \E m \in Blocks(CallerGid(c)) :
          callers' = [callers EXCEPT ![c] =
                         [NoCaller EXCEPT !.pc = "live", !.g = NewG(CallerGid(c), m)]]
    /\ UNCHANGED <<goroutinePrefix, gidOffset, initDone, archHasGetg, goidField, run,
                   mainPc, mainI, voters, ret, globalCandidateOffsets, reported,
                   results, crashed, unit>>

\* it calls GetGoID()
CallGetGoID(c) ==
    /\ ~crashed
    /\ callers[c].pc = "live"
    /\ LET out == GetGoID(callers[c].g)
       IN  IF out.fatal
           THEN /\ crashed' = TRUE
                /\ callers' = [callers EXCEPT
                      ![c].pc = "dead",
                      ![c].seen = callers[c].seen \cup {gidOffset}]
           ELSE /\ callers' = [callers EXCEPT
                      ![c].pc = "got",
                      ![c].id = out.id,
                      ![c].seen = callers[c].seen \cup {gidOffset}]
                /\ UNCHANGED crashed
    /\ UNCHANGED <<goroutinePrefix, gidOffset, initDone, archHasGetg, goidField, run,
                   mainPc, mainI, voters, ret, globalCandidateOffsets, reported,
                   results, unit>>

\* it calls FastGetGoIDAvailable()
CallAvailable(c) ==
    /\ ~crashed
    /\ callers[c].pc \in {"live", "got"}
    /\ callers' = [callers EXCEPT
          ![c].answers = callers[c].answers \cup {FastGetGoIDAvailable},
          ![c].seen = callers[c].seen \cup {gidOffset}]
    /\ UNCHANGED <<goroutinePrefix, gidOffset, initDone, archHasGetg, goidField, run,
                   mainPc, mainI, voters, ret, globalCandidateOffsets, reported,
                   results, crashed, unit>>

---------------------------------------------------------------------------
(* The process.                                                            *)

NoUnit == [op |-> "none"]

Init ==
    /\ goroutinePrefix \in {Str_goroutine, Str_fake}
    /\ gidOffset = 0
    /\ initDone = FALSE
    /\ archHasGetg \in BOOLEAN
    /\ goidField \in 0..NumSlots
    /\ run = 0
    /\ mainPc = "start"
    /\ mainI = 0
    /\ voters = [v \in Voters |-> NoVoter]
    /\ ret = <<>>
    /\ globalCandidateOffsets = <<>>
    /\ reported = [v \in Voters |-> <<>>]
    /\ results = <<>>
    /\ crashed = FALSE
    /\ callers = [c \in Callers |-> NoCaller]
    /\ unit = NoUnit

Next ==
    \/ Begin
    \/ SpawnVoter
    \/ \E v \in Voters : VoterFind(v)
    \/ \E v \in Voters : CheckSpawn(v)
    \/ \E v \in Voters, i \in Probes : ProbeRun(v, i)
    \/ \E v \in Voters : CheckRecv(v)
    \/ \E v \in Voters : VoterSend(v)
    \/ MainRecv
    \/ MainPick
    \/ \E c \in Callers : CallerSpawn(c)
    \/ \E c \in Callers : CallGetGoID(c)
    \/ \E c \in Callers : CallAvailable(c)

Spec == Init /\ [][Next]_vars

---------------------------------------------------------------------------
(* slowGid by itself, on traces other than the runtime's.                  *)

TraceChars == {"0", "1", "2", "-", " ", "x"}

TraceBodies == UNION {[1..n -> TraceChars] : n \in 0..MaxBody}

\* what follows the body: nothing, or enough text to overflow slowGid's buffer
TraceTails == {<<>>, Str_running \o Str_running}

Traces ==
    {head \o body \o tail :
        head \in {<<>>, Str_goroutine, Str_fake}, body \in TraceBodies,
        tail \in TraceTails}

InitBase ==
    /\ gidOffset = 0
    /\ initDone = FALSE
    /\ run = 0
    /\ mainPc = "start"
    /\ mainI = 0
    /\ voters = [v \in Voters |-> NoVoter]
    /\ ret = <<>>
    /\ globalCandidateOffsets = <<>>
    /\ reported = [v \in Voters |-> <<>>]
    /\ results = <<>>
    /\ crashed = FALSE
    /\ callers = [c \in Callers |-> NoCaller]

InitSlow ==
    /\ InitBase
    /\ goroutinePrefix \in {Str_goroutine, Str_fake}
    /\ archHasGetg = TRUE
    /\ goidField = 0
    /\ unit \in {[op |-> "slowGid", trace |-> t, done |-> FALSE, id |-> 0] : t \in Traces}

\* slowGid() where runtime.Stack yields unit.trace
SlowCall ==
    /\ unit.op = "slowGid"
    /\ ~unit.done
    /\ unit' = [unit EXCEPT !.done = TRUE,
                            !.id = slowGidOf(goroutinePrefix, unit.trace)]
    /\ UNCHANGED <<goroutinePrefix, gidOffset, initDone, archHasGetg, goidField, run,
                   mainPc, mainI, voters, ret, globalCandidateOffsets, reported,
                   results, crashed, callers>>

SpecSlow == InitSlow /\ [][SlowCall]_vars

---------------------------------------------------------------------------
(* findGidOffset by itself, on windows other than the voters'.             *)

\* the goroutine that calls findGidOffset directly, as a test does
FindGid == 1

FindStarts == 0..(gSize + gidSize)

FindMaxes == Offsets \cup {gidSize + 1, gSize, gSize + gidSize}

InitFind ==
    /\ InitBase
    /\ goroutinePrefix \in {Str_goroutine, Str_fake}
    /\ archHasGetg \in BOOLEAN
    /\ goidField \in 0..NumSlots
    /\ unit \in {[op |-> "findGidOffset",
                  g |-> [NewG(FindGid, m) EXCEPT !.paniconfault = p],
                  startOffset |-> s, maxOffset |-> x, done |-> FALSE,
                  out |-> [offset |-> 0, reads |-> <<>>, panicked |-> FALSE,
                           fatal |-> FALSE, paniconfault |-> p]] :
                 m \in Blocks(FindGid), p \in BOOLEAN,
                 s \in FindStarts, x \in FindMaxes}
    /\ unit.startOffset < unit.maxOffset => unit.startOffset % gidSize = 0

\* findGidOffset(unit.startOffset, unit.maxOffset) called by goroutine unit.g
FindCall ==
    /\ unit.op = "findGidOffset"
    /\ ~unit.done
    /\ unit' = [unit EXCEPT
                  !.done = TRUE,
                  !.out = findGidOffset(unit.g, unit.startOffset, unit.maxOffset)]
    /\ UNCHANGED <<goroutinePrefix, gidOffset, initDone, archHasGetg, goidField, run,
                   mainPc, mainI, voters, ret, globalCandidateOffsets, reported,
                   results, crashed, callers>>

SpecFind == InitFind /\ [][FindCall]_vars

---------------------------------------------------------------------------
(* Properties.                                                             *)

Range(s) == {s[i] : i \in DOMAIN s}

MaxGoID == Pow2(GoIDBits - 1) - 1

MinGoID == 0 - Pow2(GoIDBits - 1)

Got == {c \in Callers : callers[c].pc = "got"}

Started == {c \in Callers : callers[c].pc # "none"}

\* C1: goroutines that are live together and each called GetGoID once got
\* pairwise distinct ids, none of them 0 (stated for the case that the
\* runtime's trace carries the prefix slowGid expects, on either path).
C1_DistinctNonzeroIds ==
    goroutinePrefix = Str_goroutine =>
        \A c \in Got, d \in Got :
            /\ callers[c].id # 0
            /\ c # d => callers[c].id # callers[d].id

\* C2: when FastGetGoIDAvailable() is true, for every goroutine, sampled
\* during resolution or not, the word at gidOffset of its g can be read and
\* equals what slowGid returns for it.
C2_FastEqualsSlow ==
    (initDone /\ FastGetGoIDAvailable) =>
        \A c \in Started :
            /\ ~Faults(getg(callers[c].g), gidOffset)
            /\ gidFromG(getg(callers[c].g), gidOffset) = slowGid(callers[c].g)

\* C3: when getGidOffset has returned o: if o >= 0 then every voter listed o,
\* and o = -1 exactly when no offset was listed by every voter.
C3_UnanimousOrNone ==
    (mainPc = "idle" /\ results # <<>>) =>
        LET o == results[Len(results)].offset
            listed == UNION {Range(reported[v]) : v \in Voters}
        IN  /\ o >= 0 => \A v \in Voters : o \in Range(reported[v])
            /\ o = -1 <=> ~\E x \in listed : \A v \in Voters : x \in Range(reported[v])
            /\ o >= -1

\* a run returned an offset although some other offset was approved by some
\* voter and not by all
C3_Witness ==
    /\ mainPc = "idle"
    /\ results # <<>>
    /\ results[Len(results)].offset >= 0
    /\ \E x \in Offsets :
          /\ \E v \in Voters : x \in Range(reported[v])
          /\ \E v \in Voters : x \notin Range(reported[v])

\* C4: two runs of getGidOffset in one process return the same offset
\* (stated for two runs whose voters produced the same tally, so that only
\* the order in which the map is ranged over is left open).
C4_SameOffsetTwice ==
    (Len(results) = 2 /\ results[1].tally = results[2].tally) =>
        results[1].offset = results[2].offset

\* C5: when the prefix slowGid expects is not the one the runtime writes,
\* every run of getGidOffset returns -1 and FastGetGoIDAvailable() is false.
C5_BadPrefixNoFastPath ==
    goroutinePrefix # Str_goroutine =>
        /\ \A r \in DOMAIN results : results[r].offset = -1
        /\ initDone => ~FastGetGoIDAvailable

\* resolution ran under the wrong prefix on a g that holds its id in word 0
C5_Witness ==
    /\ goroutinePrefix = Str_fake
    /\ archHasGetg
    /\ goidField = 0
    /\ initDone
    /\ gidOffset = -1

\* C6: gidOffset is resolved once, by the initializer's run, and every call
\* of the API reads that resolved value: none reads gidOffset before the
\* initializer has returned, and all callers read the same value.
C6_ResolvedOnceBeforeUse ==
    /\ initDone => (results # <<>> /\ gidOffset = results[1].offset)
    /\ \A c \in Callers :
          callers[c].seen # {} =>
              /\ initDone
              /\ callers[c].seen = {results[1].offset}

\* every caller has read gidOffset, after a second run of getGidOffset
\* returned something else than the initializer's run
C6_Witness ==
    /\ Len(results) = 2
    /\ results[1].offset # results[2].offset
    /\ \A c \in Callers : callers[c].seen # {}

\* C7: GetGoID returns the word at gidOffset of the caller's g when
\* gidOffset >= 0 and slowGid's value when it is -1; FastGetGoIDAvailable
\* answers gidOffset >= 0; neither call ends in an error.
C7_ApiContract ==
    \A c \in Callers :
        /\ callers[c].pc # "dead"
        /\ callers[c].pc = "got" =>
              callers[c].id = IF gidOffset >= 0
                              THEN gidFromG(callers[c].g, gidOffset)
                              ELSE slowGid(callers[c].g)
        /\ callers[c].answers \subseteq {gidOffset >= 0}

\* the text slowGid works on, and the part of it before the first space
\* once the prefix is taken off
SlowText == StackBuf(unit.trace)

SlowDone == unit.op = "slowGid" /\ unit.done

\* C8: slowGid returns 0 when the text does not start with the prefix, when
\* the number after the prefix is malformed, and when no space follows it.
C8_ZeroOnBadText ==
    SlowDone =>
        LET rest == SubSeq(SlowText, Len(goroutinePrefix) + 1, Len(SlowText))
            sp == IndexByte(rest, " ")
        IN  /\ ~HasPrefix(SlowText, goroutinePrefix) => unit.id = 0
            /\ (HasPrefix(SlowText, goroutinePrefix) /\ sp = -1) => unit.id = 0
            /\ (HasPrefix(SlowText, goroutinePrefix) /\ sp >= 0
                  /\ ParseInt(SubSeq(rest, 1, sp), GoIDBits).err) => unit.id = 0

\* C9: on a text made of the prefix, the decimal digits of a number n that
\* fits a GoID, a space, and anything after it, slowGid returns n.
C9_RoundTrip ==
    SlowDone =>
        \A n \in MinGoID..MaxGoID :
            HasPrefix(unit.trace, goroutinePrefix \o FormatInt(n) \o <<" ">>) =>
                unit.id = n

\* slowGid returned a number of several digits from a trace longer than its buffer
C9_Witness ==
    /\ SlowDone
    /\ Len(unit.trace) > bufSize
    /\ \E n \in 10..MaxGoID :
          /\ HasPrefix(unit.trace, goroutinePrefix \o FormatInt(n) \o <<" ">>)
          /\ unit.id = n

FindDone == unit.op = "findGidOffset" /\ unit.done

\* C10: findGidOffset(startOffset, maxOffset) with startOffset >= maxOffset
\* returns -1 and reads nothing through the g.
C10_EmptyWindow ==
    (FindDone /\ unit.startOffset >= unit.maxOffset) =>
        /\ unit.out.offset = -1
        /\ unit.out.reads = <<>>

\* findGidOffset(10, 9) returned, called where slowGid and getg both work
C10_Witness ==
    /\ FindDone
    /\ unit.startOffset = gidSize + 2
    /\ unit.maxOffset = gidSize + 1
    /\ goroutinePrefix = Str_goroutine
    /\ archHasGetg
    /\ unit.out.offset = -1


\* the least member of a nonempty set of offsets
Lowest(S) == CHOOSE x \in S : \A y \in S : x <= y

\* the offsets findGidOffset(unit.startOffset, unit.maxOffset) may read
FindWindow ==
    {o \in unit.startOffset..(unit.maxOffset - 1) :
        (o - unit.startOffset) % gidSize = 0}

\* the offsets of the window whose word is readable and equals slowGid()
FindMatches ==
    {o \in FindWindow :
        ~Faults(unit.g, o) /\ gidFromG(unit.g, o) = slowGid(unit.g)}

\* C11: with a nonzero slowGid() and a non-nil g, findGidOffset returns the
\* smallest offset of start, start+gidSize, ... below maxOffset whose word
\* equals slowGid(), provided no lower offset faults, and -1 if there is none;
\* with slowGid() = 0 or a nil g it returns -1 and reads nothing; an offset it
\* returns never holds another value.
C11_FirstMatch ==
    FindDone =>
        /\ (slowGid(unit.g) # 0 /\ getg(unit.g) # NilG) =>
              /\ (/\ FindMatches # {}
                  /\ \A p \in FindWindow : p < Lowest(FindMatches) => ~Faults(unit.g, p))
                     => unit.out.offset = Lowest(FindMatches)
              /\ FindMatches = {} => unit.out.offset = -1
        /\ (slowGid(unit.g) = 0 \/ getg(unit.g) = NilG) =>
              /\ unit.out.offset = -1
              /\ unit.out.reads = <<>>
        /\ unit.out.offset # -1 =>
              /\ unit.out.offset \in FindWindow
              /\ ~Faults(unit.g, unit.out.offset)
              /\ gidFromG(unit.g, unit.out.offset) = slowGid(unit.g)

\* findGidOffset passed over a word that differs and returned the next offset
C11_Witness ==
    /\ FindDone
    /\ slowGid(unit.g) # 0
    /\ unit.out.offset = unit.startOffset + gidSize
    /\ unit.out.reads = <<unit.startOffset, unit.startOffset + gidSize>>
    /\ gidFromG(unit.g, unit.startOffset) # slowGid(unit.g)

\* the scan of a finished findGidOffset call ended in a memory fault
FindFaulted ==
    /\ FindDone
    /\ unit.out.reads # <<>>
    /\ Faults(unit.g, unit.out.reads[Len(unit.out.reads)])

\* C13: a memory fault during findGidOffset's scan makes the call return -1;
\* the fault is caught inside the call and does not end the process, whatever
\* the caller's panic-on-fault setting was.
C13_ScanFaultCaught ==
    FindFaulted =>
        /\ unit.out.offset = -1
        /\ unit.out.panicked
        /\ ~unit.out.fatal

\* a caller with panic-on-fault off scanned past a readable word and faulted
C13_Witness ==
    /\ FindFaulted
    /\ ~unit.g.paniconfault
    /\ Len(unit.out.reads) >= 2
    /\ unit.out.offset = -1

\* C14: on every exit path of findGidOffset the caller's panic-on-fault
\* setting after the call equals the setting before it.
C14_PanicOnFaultRestored ==
    FindDone => unit.out.paniconfault = unit.g.paniconfault

\* findGidOffset caught a fault for a caller whose setting was off, and left
\* it off
C14_Witness ==
    /\ FindFaulted
    /\ unit.out.panicked
    /\ ~unit.g.paniconfault
    /\ ~unit.out.paniconfault


\* C12: a memory fault in a probe of checkGidOffset is caught inside that
\* probe and reported as false; it never ends the process or the batch, so no
\* probe is ever the goroutine whose fault killed the process.
C12_ProbeFaultCaught ==
    \A v \in Voters : \A i \in Probes :
        /\ voters[v].probes[i] # "dead"
        /\ voters[v].pc = "recv" => ~crashed


\* the probes of voter v's checkGidOffset that have run to their send
ProbesDone(v) ==
    {i \in Probes : voters[v].probes[i] \in {"nogid", "nilg", "matched", "differs"}}

\* voter v's checkGidOffset receives its last boolean in this step
CheckReturns(v) ==
    /\ voters[v].pc = "recv"
    /\ voters'[v].pc # "recv"
    /\ ~crashed'

\* C15: checkGidOffset(offset) returns true exactly when every one of its
\* checkCount probes found a nonzero slowGid(), a non-nil g and the word at
\* offset equal to its slowGid(); one probe that did not makes it return
\* false, in whatever order the booleans arrive.
C15_AllProbesMatch ==
    [][\A v \in Voters :
          CheckReturns(v) =>
              /\ ProbesDone(v) = Probes
              /\ voters'[v].result =
                    (\A i \in Probes : voters[v].probes[i] = "matched")
              /\ voters'[v].checked[Len(voters'[v].checked)] =
                    [offset |-> voters[v].offset, result |-> voters'[v].result]]_vars

\* checkGidOffset(0) has returned false to a voter whose own word at offset 0
\* matched: some probe did not match
C15_Witness ==
    \E v \in Voters :
        /\ voters[v].pc = "loop"
        /\ voters[v].checked # <<>>
        /\ ~voters[v].checked[Len(voters[v].checked)].result
        /\ ~voters[v].result
        /\ voters[v].i = checkCount
        /\ voters[v].localCandidateOffsets = <<>>
        /\ voters[v].offset = gidSize


\* the offsets of a list of [offset, result] records, and of those approved
OffsetsOf(checked) == [k \in 1..Len(checked) |-> checked[k].offset]

RECURSIVE Approved(_)
Approved(checked) ==
    IF checked = <<>> THEN <<>>
    ELSE IF Head(checked).result
         THEN <<Head(checked).offset>> \o Approved(Tail(checked))
         ELSE Approved(Tail(checked))

Ascending(seq) == \A k \in 1..(Len(seq) - 1) : seq[k] < seq[k + 1]

\* the offsets of the window at which voter v's own block holds its own
\* slowGid(): none when slowGid() is 0 or g is nil
OwnMatches(v) ==
    IF slowGid(voters[v].g) = 0 \/ getg(voters[v].g) = NilG THEN {}
    ELSE {o \in Offsets :
             /\ \A p \in Offsets : p <= o => ~Faults(voters[v].g, p)
             /\ gidFromG(voters[v].g, o) = slowGid(voters[v].g)}

\* C16: a voter passes to checkGidOffset every offset of 0, gidSize, ...,
\* gSize-gidSize at which its own block holds its own slowGid() (up to the
\* first fault), each once and in ascending order; the list it reports is
\* exactly the offsets checkGidOffset approved; a rejected candidate does not
\* stop the enumeration.
C16_VoterEnumerates ==
    \A v \in Voters :
        /\ Ascending(OffsetsOf(voters[v].checked))
        /\ voters[v].localCandidateOffsets = Approved(voters[v].checked)
        /\ voters[v].pc \in {"loop", "check", "recv"} =>
              {voters[v].checked[k].offset : k \in 1..Len(voters[v].checked)}
                 = {o \in OwnMatches(v) : o < voters[v].offset}
        /\ voters[v].pc \in {"check", "recv"} => voters[v].offset \in OwnMatches(v)
        /\ voters[v].pc = "send" =>
              {voters[v].checked[k].offset : k \in 1..Len(voters[v].checked)}
                 = OwnMatches(v)

\* a voter about to report had its first candidate rejected and a later one
\* approved
C16_Witness ==
    \E v \in Voters :
        /\ voters[v].pc = "send"
        /\ Len(voters[v].checked) = 2
        /\ ~voters[v].checked[1].result
        /\ voters[v].checked[2].result
        /\ voters[v].localCandidateOffsets = <<gidSize>>


\* getGidOffset has been called and has not returned
Resolving == mainPc \in {"spawn", "collect", "pick"}

\* some goroutine of getGidOffset can run: the process is alive and the main
\* goroutine, a voter or a probe is not waiting on an empty or a full channel
CanStep ==
    /\ ~crashed
    /\ \/ mainPc = "spawn" /\ mainI < voterCount
       \/ mainPc = "collect" /\ mainI < voterCount /\ ret # <<>>
       \/ mainPc = "pick"
       \/ \E v \in Voters :
             \/ voters[v].pc \in {"loop", "check"}
             \/ voters[v].pc = "recv" /\ voters[v].chk # <<>>
             \/ /\ voters[v].pc = "recv"
                /\ Len(voters[v].chk) < checkCount
                /\ \E i \in Probes : voters[v].probes[i] = "ready"
             \/ voters[v].pc = "send" /\ Len(ret) < voterCount

\* C17: getGidOffset always terminates: a voter's loop runs at most
\* gSize/gidSize times, no more lists or booleans are sent than the channels
\* hold, every probe sends its boolean on the fault path too, and as long as
\* getGidOffset has not returned some goroutine of it can take a step.
C17_Terminates ==
    /\ \A v \in Voters :
          /\ Len(voters[v].checked) <= gSize \div gidSize
          /\ Len(voters[v].chk) <= checkCount
    /\ Len(ret) <= voterCount
    /\ Resolving => CanStep


\* a call of GetGoID or FastGetGoIDAvailable by some caller
ApiCall == \E c \in Callers : CallGetGoID(c) \/ CallAvailable(c)

\* C18: once resolved, gidOffset never changes: no step after initialization
\* changes it, in particular no call of GetGoID or FastGetGoIDAvailable (with
\* the fastGid or slowGid under it), and all calls of FastGetGoIDAvailable,
\* by whichever caller and at whichever time, get the same answer.
C18_OffsetFixed ==
    [][/\ initDone => gidOffset' = gidOffset
       /\ ApiCall => gidOffset' = gidOffset
       /\ \A c, d \in Callers :
             Cardinality(callers'[c].answers \cup callers'[d].answers) <= 1]_vars

\* getGidOffset has run again and returned another offset than the one
\* gidOffset holds, and two callers have then called GetGoID and
\* FastGetGoIDAvailable
C18_Witness ==
    /\ Len(results) = 2
    /\ results[2].offset # gidOffset
    /\ \E c, d \in Callers :
          /\ c # d
          /\ callers[c].pc = "got" /\ callers[c].answers # {}
          /\ callers[d].pc = "got" /\ callers[d].answers # {}


\* the callers that have called GetGoID or FastGetGoIDAvailable
HasCalled == {c \in Callers : callers[c].seen # {}}

GoodList(list) ==
    /\ Range(list) \subseteq Offsets
    /\ \A j, k \in DOMAIN list : j # k => list[j] # list[k]

\* a tally counts only multiples of gidSize in [0, gSize), none more than n times
GoodTally(tally, n) ==
    /\ DOMAIN tally \subseteq Offsets
    /\ \A o \in DOMAIN tally : tally[o] \in 1..n

\* C20: what getGidOffset returns is -1 or a multiple of gidSize in
\* [0, gSize); every offset passed to checkGidOffset, listed by a voter or
\* counted in the tally is such a multiple; no voter lists an offset twice, so
\* no tally entry exceeds voterCount (nor the number of lists received).
C20_OffsetsWellFormed ==
    /\ \A k \in DOMAIN results :
          /\ results[k].offset \in Offsets \cup {-1}
          /\ GoodTally(results[k].tally, voterCount)
    /\ \A v \in Voters :
          /\ voters[v].pc \in {"check", "recv"} => voters[v].offset \in Offsets
          /\ Range(OffsetsOf(voters[v].checked)) \subseteq Offsets
          /\ GoodList(voters[v].localCandidateOffsets)
          /\ GoodList(reported[v])
    /\ \A k \in DOMAIN ret : GoodList(ret[k])
    /\ GoodTally(globalCandidateOffsets, Min(mainI, voterCount))

\* getGidOffset returned an offset every voter listed, from a tally that also
\* counts an offset fewer voters listed
C20_Witness ==
    \E k \in DOMAIN results :
        /\ results[k].offset \in Offsets
        /\ results[k].tally[results[k].offset] = voterCount
        /\ \E o \in DOMAIN results[k].tally : results[k].tally[o] < voterCount

=============================================================================
